---- MODULE Spec2Model ----
(***************************************************************************)
(* Model of src/userguide/c/rng/stdin2testu01.c: a buffered reader that    *)
(* hands the content of standard input to one of the TestU01 batteries.    *)
(*                                                                         *)
(* Memory is modelled at byte level.  A slot of `buffer` is the sequence   *)
(* of the sizeof(unsigned long) bytes it occupies, in address order; an    *)
(* integer VALUE is the sequence of its base-256 digits, least significant *)
(* digit first (TLC integers are too narrow for 2^32).  Characters are     *)
(* their ASCII codes, strings are sequences of characters.                 *)
(***************************************************************************)
EXTENDS Integers, Sequences

(***************************************************************************)
(* Program constants.                                                      *)
(***************************************************************************)
BUFFER_LENGTH == 256

TU_S == <<83, 109, 97, 108, 108, 67, 114, 117, 115, 104>>

TU_C == <<67, 114, 117, 115, 104>>

TU_B == <<66, 105, 103, 67, 114, 117, 115, 104>>

\* "[ERROR] Specify test suite: '"
UsagePrefix == <<91, 69, 82, 82, 79, 82, 93, 32, 83, 112, 101, 99, 105, 102, 121, 32, 116, 101, 115, 116, 32, 115, 117, 105, 116, 101, 58, 32, 39>>

\* "', '"
UsageSep1 == <<39, 44, 32, 39>>

\* "' or '"
UsageSep2 == <<39, 32, 111, 114, 32, 39>>

\* "'\n"
QuoteNewline == <<39, 10>>

\* "[ERROR] Unknown specification: '"
UnknownPrefix == <<91, 69, 82, 82, 79, 82, 93, 32, 85, 110, 107, 110, 111, 119, 110, 32, 115, 112, 101, 99, 105, 102, 105, 99, 97, 116, 105, 111, 110, 58, 32, 39>>

\* "stdin"
StdinName == <<115, 116, 100, 105, 110>>

\* "N/A"
NotAvailable == <<78, 47, 65>>

(***************************************************************************)
(* Bounds and input sets of the model.                                     *)
(***************************************************************************)
\* the largest number of accessor calls a battery makes in the model
MaxCalls == 520

\* the largest number of times a battery writes the generator's description
MaxWrites == 1

\* "./stdin2testu01"
ProgName == <<46, 47, 115, 116, 100, 105, 110, 50, 116, 101, 115, 116, 117, 48, 49>>

\* "bigcrush"
ArgLowerBig == <<98, 105, 103, 99, 114, 117, 115, 104>>

\* "rush"
ArgRush == <<114, 117, 115, 104>>

\* "Crush "
ArgCrushSpace == <<67, 114, 117, 115, 104, 32>>

\* "SmallCrus"
ArgSmallCrus == <<83, 109, 97, 108, 108, 67, 114, 117, 115>>

\* the argument vectors the program is started with (argv[0] first)
Argvs ==
  { <<ProgName>>,
    <<ProgName, TU_S>>, <<ProgName, TU_C>>, <<ProgName, TU_B>>,
    <<ProgName, ArgLowerBig>>, <<ProgName, ArgRush>>,
    <<ProgName, ArgCrushSpace>>, <<ProgName, ArgSmallCrus>>,
    <<ProgName, <<>>>>, <<ProgName, ArgLowerBig, TU_C>> }

\* the builds: width of unsigned long and byte order
ABIs == {"ILP32", "LP64", "LP64BE"}

\* lengths, in bytes, of the data available on standard input
StreamLens == {0, 10, 1024, 1200, 2060}

\* lengths of the data when standard input is a socket
SocketStreamLens == {2060}

\* the byte that fills the memory util_Malloc returns, which the program
\* never initialises: 0x00 (fresh pages) or 0xA5 (glibc, MALLOC_PERTURB_=90)
MallocFills == {0, 165}

\* what a partially read element leaves in its slot: the bytes that
\* arrived are copied over the slot's first bytes, or the slot is untouched
PartialOutcomes == {"copied", "untouched"}

(***************************************************************************)
(* The build.                                                              *)
(***************************************************************************)
SizeofUnsignedLong(a) == IF a = "ILP32" THEN 4 ELSE 8

BigEndian(a) == a = "LP64BE"

Reverse(s) == [i \in 1..Len(s) |-> s[Len(s) + 1 - i]]

\* the value held by the bytes of an object, least significant digit first
ValueOfBytes(bytes, a) == IF BigEndian(a) THEN Reverse(bytes) ELSE bytes

\* variant: the slot is returned as an unsigned long, without the narrowing
ToUint32Untruncated(v) == v

\* conversion to uint32_t: the value modulo 2^32
ToUint32(v) == SubSeq(v, 1, 4)

\* conversion of a uint32_t to the unsigned long that nextInt returns
ToUnsignedLong(v, a) ==
  [k \in 1..SizeofUnsignedLong(a) |-> IF k <= Len(v) THEN v[k] ELSE 0]

\* v < 2^32, for a value v
Below2Pow32(v) == \A k \in 1..Len(v) : k > 4 => v[k] = 0

(***************************************************************************)
(* Standard input: the k-th byte (k from 0) of the data.  The 32-bit word  *)
(* number w holds a counter in its first two bytes and a tag in the last   *)
(* two, so that the words of a stream are pairwise different.              *)
(***************************************************************************)
StreamByte(k) ==
  LET w == k \div 4
      j == k % 4
  IN  IF j = 0 THEN (w + 1) % 256
      ELSE IF j = 1 THEN ((w + 1) \div 256) % 256
      ELSE IF j = 2 THEN 90
      ELSE 195

\* the i-th 32-bit word (i from 1) of the stream, as a value of the build
StreamWord(i, a) ==
  ValueOfBytes([j \in 1..4 |-> StreamByte(4 * (i - 1) + j - 1)], a)

(***************************************************************************)
(* strcmp: 0 when the strings are equal, else the sign of the first        *)
(* difference, the terminating NUL (0) included.                           *)
(***************************************************************************)
CharAt(s, i) == IF i <= Len(s) THEN s[i] ELSE 0

RECURSIVE strcmpFrom(_, _, _)
strcmpFrom(s1, s2, i) ==
  IF CharAt(s1, i) # CharAt(s2, i)
    THEN (IF CharAt(s1, i) < CharAt(s2, i) THEN -1 ELSE 1)
    ELSE IF CharAt(s1, i) = 0 THEN 0
    ELSE strcmpFrom(s1, s2, i + 1)

\* variant: s1 matches when it is a suffix of s2
strcmpSuffix(s1, s2) ==
  IF Len(s1) <= Len(s2) /\ SubSeq(s2, Len(s2) - Len(s1) + 1, Len(s2)) = s1
    THEN 0 ELSE strcmpFrom(s1, s2, 1)

\* variant: letters compare without regard to case (strcasecmp)
ToLower(s) == [i \in 1..Len(s) |-> IF s[i] >= 65 /\ s[i] <= 90 THEN s[i] + 32 ELSE s[i]]

strcmpNoCase(s1, s2) == strcmpFrom(ToLower(s1), ToLower(s2), 1)

strcmp(s1, s2) == strcmpFrom(s1, s2, 1)

(***************************************************************************)
(* fread(ptr, size, nmemb, stdin) with the stream at byte fpos of flen.    *)
(* Returns the array, the new position and the number of whole elements.   *)
(* A stream that a failed freopen has closed delivers nothing.             *)
(***************************************************************************)
\* variant: the elements that were not read are cleared
freadZeroFill(ptr, size, nmemb, open, fpos, flen, outcome) ==
  LET avail == IF open THEN flen - fpos ELSE 0
      want  == size * nmemb
      got   == IF avail < want THEN avail ELSE want
      n     == got \div size
  IN  [ buf |-> [i \in DOMAIN ptr |->
                   IF i < n
                     THEN [j \in 1..size |-> StreamByte(fpos + i * size + j - 1)]
                     ELSE [j \in 1..size |-> 0]],
        pos |-> fpos + got,
        n |-> n,
        part |-> got % size ]

\* variant: a read at end of input clears the whole array
freadClearOnEof(ptr, size, nmemb, open, fpos, flen, outcome) ==
  LET avail == IF open THEN flen - fpos ELSE 0
      want  == size * nmemb
      got   == IF avail < want THEN avail ELSE want
      n     == got \div size
      part  == got % size
  IN  [ buf |-> [i \in DOMAIN ptr |->
                   IF got = 0
                     THEN [j \in 1..size |-> 0]
                   ELSE IF i < n
                     THEN [j \in 1..size |-> StreamByte(fpos + i * size + j - 1)]
                   ELSE IF i = n /\ part > 0 /\ outcome = "copied"
                     THEN [j \in 1..size |->
                             IF j <= part
                               THEN StreamByte(fpos + i * size + j - 1)
                               ELSE ptr[i][j]]
                   ELSE ptr[i]],
        pos |-> fpos + got,
        n |-> n,
        part |-> part ]

fread(ptr, size, nmemb, open, fpos, flen, outcome) ==
  LET avail == IF open THEN flen - fpos ELSE 0
      want  == size * nmemb
      got   == IF avail < want THEN avail ELSE want
      n     == got \div size
      part  == got % size
  IN  [ buf |-> [i \in DOMAIN ptr |->
                   IF i < n
                     THEN [j \in 1..size |-> StreamByte(fpos + i * size + j - 1)]
                   ELSE IF i = n /\ part > 0 /\ outcome = "copied"
                     THEN [j \in 1..size |->
                             IF j <= part
                               THEN StreamByte(fpos + i * size + j - 1)
                               ELSE ptr[i][j]]
                   ELSE ptr[i]],
        pos |-> fpos + got,
        n |-> n,
        part |-> part ]

(***************************************************************************)
(* nextInt                                                                 *)
(***************************************************************************)
\* variant: the comparison is strict
NeedsRefillStrict(idx) == idx > BUFFER_LENGTH

NeedsRefill(idx) == idx >= BUFFER_LENGTH

ResetIndex == 0

\* state->buffer[i]; past the end of the array the value is indeterminate
Load(buf, i, a) ==
  IF i \in DOMAIN buf THEN buf[i]
  ELSE [j \in 1..SizeofUnsignedLong(a) |-> 255]

nextInt(buf, idx, open, fpos, flen, a, outcome) ==
  LET refill == NeedsRefill(idx)
      r      == fread(buf, SizeofUnsignedLong(a), BUFFER_LENGTH, open, fpos, flen,
                      outcome)
      buf2   == IF refill THEN r.buf ELSE buf
      idx2   == IF refill THEN ResetIndex ELSE idx
      random == ToUint32(ValueOfBytes(Load(buf2, idx2, a), a))
  IN  [ buffer |-> buf2,
        index |-> idx2 + 1,
        pos |-> IF refill THEN r.pos ELSE fpos,
        result |-> ToUnsignedLong(random, a),
        refilled |-> refill,
        slot |-> idx2,
        n |-> IF refill THEN r.n ELSE -1,
        part |-> IF refill THEN r.part ELSE 0 ]

(***************************************************************************)
(* nextDouble: the double nextInt(...) / 4294967296.0, kept as the         *)
(* numerator and the exponent of the power of two it is divided by.        *)
(***************************************************************************)
nextDouble(buf, idx, open, fpos, flen, a, outcome) ==
  LET r == nextInt(buf, idx, open, fpos, flen, a, outcome)
  IN  [r EXCEPT !.result = [num |-> r.result, exp |-> 32]]

(***************************************************************************)
(* State.                                                                  *)
(***************************************************************************)
VARIABLES
  argv,        \* the argument vector
  abi,         \* the build
  stdinKind,   \* what standard input is connected to
  streamLen,   \* bytes of data on standard input
  pos,         \* bytes of standard input consumed so far
  stdinState,  \* standard input: "open", reopened "rb", or "closed"
  gen,         \* the unif01_Gen object, or whether it is allocated
  buffer,      \* state->buffer, slots 0..BUFFER_LENGTH-1
  index,       \* state->index
  pc,          \* position of main
  spec,        \* main's local variable spec
  battery,     \* batteries invoked so far, in order
  out,         \* characters written to standard output
  exitStatus,  \* exit status of the process, -1 while it runs
  calls,       \* accessor calls made so far
  refills,     \* refills performed so far
  ret,         \* result of the last accessor call: [kind, val]
  readPos,     \* slot read by the last accessor call
  lastRead,    \* [n, part] delivered by the last refill
  prev,        \* per slot, the word last returned from it
  prevPass,    \* the word the slot of the last call returned one pass earlier
  eofAt,       \* number of the call whose refill left nothing more to read
  created,     \* calls of createStdinReader
  deleted      \* calls of deleteStdinReader

vars == << argv, abi, stdinKind, streamLen, pos, stdinState, gen, buffer, index, pc, spec,
           battery, out, exitStatus, calls, refills, ret, readPos, lastRead,
           prev, prevPass, eofAt, created, deleted >>

readerVars == << pos, buffer, index, calls, refills, ret, readPos, lastRead,
                 prev, prevPass, eofAt >>

inputVars == << argv, abi, stdinKind, streamLen >>

argc == Len(argv)

NULL == <<-1>>

Slots == 0..(BUFFER_LENGTH - 1)

Init ==
  /\ argv \in Argvs
  /\ abi \in ABIs
  /\ \/ stdinKind = "file" /\ streamLen \in StreamLens
     \/ stdinKind = "socket" /\ streamLen \in SocketStreamLens
  /\ pos = 0
  /\ stdinState = "open"
  /\ gen = [alloc |-> "none"]
  /\ buffer = <<>>
  /\ index = 0
  /\ pc = "start"
  /\ spec = NULL
  /\ battery = <<>>
  /\ out = <<>>
  /\ exitStatus = -1
  /\ calls = 0
  /\ refills = 0
  /\ ret = [kind |-> "none", val |-> <<>>]
  /\ readPos = -1
  /\ lastRead = [n |-> -1, part |-> 0]
  /\ prev = <<>>
  /\ prevPass = <<>>
  /\ eofAt = 0
  /\ created = 0
  /\ deleted = 0

(***************************************************************************)
(* createStdinReader, called first by main, and main's read of argv[1].    *)
(***************************************************************************)
\* freopen(NULL, "rb", stdin): a regular file or a pipe is reopened; a
\* socket cannot be reopened, the call fails and leaves the stream closed.
\* The program does not look at the result.
freopen(kind) == IF kind = "socket" THEN "closed" ELSE "rb"

\* variant: the index starts on the last slot instead of past it
InitialIndexLastSlot == BUFFER_LENGTH - 1

InitialIndex == BUFFER_LENGTH

createStdinReader ==
  /\ pc = "start"
  /\ \E fill \in MallocFills :
       buffer' = [i \in Slots |->
                    [j \in 1..SizeofUnsignedLong(abi) |-> fill]]
  /\ gen' = [alloc |-> "live", param |-> NULL, Write |-> "dummy",
             GetU01 |-> "nextDouble", GetBits |-> "nextInt",
             name |-> StdinName]
  /\ stdinState' = freopen(stdinKind)
  /\ index' = InitialIndex
  /\ prev' = [i \in Slots |-> <<>>]
  /\ created' = created + 1
  /\ pc' = "spec"
  /\ UNCHANGED << inputVars, pos, spec, battery, out, exitStatus, calls,
                  refills, ret, readPos, lastRead, prevPass, eofAt, deleted >>

\* char *spec = argv[1]; argv[argc] is the null pointer
MainSpec ==
  /\ pc = "spec"
  /\ spec' = IF argc >= 2 THEN argv[2] ELSE NULL
  /\ pc' = "main"
  /\ UNCHANGED << inputVars, stdinState, gen, battery, out, exitStatus,
                  readerVars, created, deleted >>

(***************************************************************************)
(* main's dispatch.                                                        *)
(***************************************************************************)
\* variant: the usage error exits with the status of success
UsageExitStatusSuccess == 1 - 1

UsageExitStatus == 1

UnknownExitStatus == 1

UsageMessage ==
  UsagePrefix \o TU_S \o UsageSep1 \o TU_C \o UsageSep2 \o TU_B \o QuoteNewline

UnknownMessage(s) == UnknownPrefix \o s \o QuoteNewline

MainUsage ==
  /\ pc = "main"
  /\ argc < 2
  /\ out' = out \o UsageMessage
  /\ exitStatus' = UsageExitStatus
  /\ pc' = "exited"
  /\ UNCHANGED << inputVars, stdinState, gen, spec, battery, readerVars,
                  created, deleted >>

RunBattery(name) ==
  /\ battery' = Append(battery, [name |-> name, gen |-> gen])
  /\ pc' = "battery"
  /\ UNCHANGED << inputVars, stdinState, gen, spec, out, exitStatus, readerVars,
                  created, deleted >>

MainSmallCrush ==
  /\ pc = "main"
  /\ ~(argc < 2)
  /\ strcmp(spec, TU_S) = 0
  /\ RunBattery(TU_S)

MainCrush ==
  /\ pc = "main"
  /\ ~(argc < 2)
  /\ strcmp(spec, TU_S) # 0
  /\ strcmp(spec, TU_C) = 0
  /\ RunBattery(TU_C)

MainBigCrush ==
  /\ pc = "main"
  /\ ~(argc < 2)
  /\ strcmp(spec, TU_S) # 0
  /\ strcmp(spec, TU_C) # 0
  /\ strcmp(spec, TU_B) = 0
  /\ RunBattery(TU_B)

\* variant: the adapter is destroyed before the error exit
MainUnknownDeleting ==
  /\ pc = "main"
  /\ ~(argc < 2)
  /\ strcmp(spec, TU_S) # 0
  /\ strcmp(spec, TU_C) # 0
  /\ strcmp(spec, TU_B) # 0
  /\ out' = out \o UnknownMessage(spec)
  /\ gen' = [alloc |-> "freed"]
  /\ buffer' = <<>>
  /\ deleted' = deleted + 1
  /\ exitStatus' = UnknownExitStatus
  /\ pc' = "exited"
  /\ UNCHANGED << inputVars, pos, stdinState, index, spec, battery, calls,
                  refills, ret, readPos, lastRead, prev, prevPass, eofAt,
                  created >>

MainUnknown ==
  /\ pc = "main"
  /\ ~(argc < 2)
  /\ strcmp(spec, TU_S) # 0
  /\ strcmp(spec, TU_C) # 0
  /\ strcmp(spec, TU_B) # 0
  /\ out' = out \o UnknownMessage(spec)
  /\ exitStatus' = UnknownExitStatus
  /\ pc' = "exited"
  /\ UNCHANGED << inputVars, stdinState, gen, spec, battery, readerVars,
                  created, deleted >>

(***************************************************************************)
(* The battery: it calls gen->GetBits, gen->GetU01 and gen->Write any      *)
(* number of times and returns.                                            *)
(***************************************************************************)
\* printf("N/A") on standard output o
dummy(o) == o \o NotAvailable

\* in a battery, standard output holds what dummy printed
Write ==
  /\ pc = "battery"
  /\ gen.Write = "dummy"
  /\ Len(out) < MaxWrites * Len(NotAvailable)
  /\ out' = dummy(out)
  /\ UNCHANGED << inputVars, stdinState, gen, pc, spec, battery, exitStatus,
                  readerVars, created, deleted >>

Accessed(r, kind) ==
  /\ buffer' = r.buffer
  /\ index' = r.index
  /\ pos' = r.pos
  /\ ret' = [kind |-> kind, val |-> r.result]
  /\ calls' = calls + 1
  /\ refills' = IF r.refilled THEN refills + 1 ELSE refills
  /\ readPos' = r.slot
  /\ lastRead' = IF r.refilled THEN [n |-> r.n, part |-> r.part] ELSE lastRead
  /\ prev' = IF r.slot \in Slots
               THEN [prev EXCEPT ![r.slot] =
                       ToUint32(IF kind = "double" THEN r.result.num ELSE r.result)]
               ELSE prev
  /\ prevPass' = IF r.slot \in Slots THEN prev[r.slot] ELSE <<>>
  /\ eofAt' = IF eofAt = 0 /\ r.refilled
                   /\ (r.pos = streamLen \/ stdinState = "closed")
                THEN calls + 1 ELSE eofAt
  /\ UNCHANGED << inputVars, stdinState, gen, pc, spec, battery, out, exitStatus,
                  created, deleted >>

GetBits ==
  /\ pc = "battery"
  /\ gen.GetBits = "nextInt"
  /\ calls < MaxCalls
  /\ \E outcome \in PartialOutcomes :
       Accessed(nextInt(buffer, index, stdinState # "closed", pos, streamLen,
                        abi, outcome), "int")

GetU01 ==
  /\ pc = "battery"
  /\ gen.GetU01 = "nextDouble"
  /\ calls < MaxCalls
  /\ \E outcome \in PartialOutcomes :
       Accessed(nextDouble(buffer, index, stdinState # "closed", pos,
                           streamLen, abi, outcome), "double")

BatteryReturn ==
  /\ pc = "battery"
  /\ pc' = "delete"
  /\ UNCHANGED << inputVars, stdinState, gen, spec, battery, out, exitStatus,
                  readerVars, created, deleted >>

(***************************************************************************)
(* deleteStdinReader, and main's return.                                   *)
(***************************************************************************)
deleteStdinReader ==
  /\ pc = "delete"
  /\ gen' = [alloc |-> "freed"]
  /\ buffer' = <<>>
  /\ deleted' = deleted + 1
  /\ pc' = "return"
  /\ UNCHANGED << inputVars, pos, stdinState, index, spec, battery, out,
                  exitStatus, calls, refills, ret, readPos, lastRead, prev,
                  prevPass, eofAt, created >>

MainReturn ==
  /\ pc = "return"
  /\ exitStatus' = 0
  /\ pc' = "exited"
  /\ UNCHANGED << inputVars, stdinState, gen, spec, battery, out, readerVars,
                  created, deleted >>

Next ==
  \/ createStdinReader
  \/ MainSpec
  \/ MainUsage
  \/ MainSmallCrush
  \/ MainCrush
  \/ MainBigCrush
  \/ MainUnknown
  \/ GetBits
  \/ GetU01
  \/ Write
  \/ BatteryReturn
  \/ deleteStdinReader
  \/ MainReturn

Spec == Init /\ [][Next]_vars

TypeOK ==
  /\ pc \in {"start", "spec", "main", "battery", "delete", "return", "exited"}
  /\ index \in 0..BUFFER_LENGTH
  /\ exitStatus \in {-1, 0, 1}
  /\ stdinState \in {"open", "rb", "closed"}

(***************************************************************************)
(* Properties.                                                             *)
(***************************************************************************)
\* the 32-bit word returned by the last accessor call
RetWord ==
  SubSeq(IF ret.kind = "double" THEN ret.val.num ELSE ret.val, 1, 4)

\* the second argument is one of the three suite names
KnownSuite == argc >= 2 /\ argv[2] \in {TU_S, TU_C, TU_B}

\* the adapter as main passes it to a battery
LiveGen ==
  [alloc |-> "live", param |-> <<-1>>, Write |-> "dummy",
   GetU01 |-> "nextDouble", GetBits |-> "nextInt",
   name |-> <<115, 116, 100, 105, 110>>]

\* "[ERROR] Specify test suite: 'SmallCrush', 'Crush' or 'BigCrush'\n"
ExpectedUsage == <<91, 69, 82, 82, 79, 82, 93, 32, 83, 112, 101, 99, 105, 102, 121, 32, 116, 101, 115, 116, 32, 115, 117, 105, 116, 101, 58, 32, 39, 83, 109, 97, 108, 108, 67, 114, 117, 115, 104, 39, 44, 32, 39, 67, 114, 117, 115, 104, 39, 32, 111, 114, 32, 39, 66, 105, 103, 67, 114, 117, 115, 104, 39, 10>>

\* "[ERROR] Unknown specification: '"
ExpectedUnknownHead == <<91, 69, 82, 82, 79, 82, 93, 32, 85, 110, 107, 110, 111, 119, 110, 32, 115, 112, 101, 99, 105, 102, 105, 99, 97, 116, 105, 111, 110, 58, 32, 39>>

\* C1: the i-th accessor call returns the i-th 32-bit word of the input
\* stream, for every i whose word lies wholly within the stream.
C1_WordsInStreamOrder ==
  (calls >= 1 /\ 4 * calls <= streamLen) => RetWord = StreamWord(calls, abi)

\* C2: a nextDouble call consumes exactly one slot (after any number of
\* calls the slots consumed are as many as the calls) and its result is
\* w / 2^32, where w is the 32-bit value taken from that slot, 0 <= w < 2^32.
C2_DoubleOneSlotUnitRange ==
  (pc = "battery" /\ ret.kind = "double") =>
    /\ ret.val.exp = 32
    /\ Below2Pow32(ret.val.num)
    /\ SubSeq(ret.val.num, 1, 4) = SubSeq(ValueOfBytes(buffer[readPos], abi), 1, 4)
    /\ index = readPos + 1
    /\ (refills - 1) * BUFFER_LENGTH + index = calls

\* C2 witness: a nextDouble call has read a slot whose unsigned long holds
\* a value of 2^32 or more.
C2_Witness ==
  /\ pc = "battery"
  /\ ret.kind = "double"
  /\ calls > 1
  /\ ~Below2Pow32(ValueOfBytes(buffer[readPos], abi))

\* C3: after n accessor calls exactly ceil(n / 256) refills have happened,
\* so the k-th call refills exactly when k - 1 is a multiple of 256.
C3_RefillEveryCapacityCalls ==
  /\ [](refills * BUFFER_LENGTH >= calls)
  /\ [](refills > 0 => (refills - 1) * BUFFER_LENGTH < calls)
  /\ [][calls' = calls + 1 =>
          /\ (calls % BUFFER_LENGTH = 0) => refills' = refills + 1
          /\ (calls % BUFFER_LENGTH # 0) => refills' = refills]_vars

\* C3 witness: the 257th call has just performed the second refill.
C3_Witness == calls = BUFFER_LENGTH + 1 /\ refills = 2

\* C4: index stays within 0..256, every read of the buffer is at a slot
\* below 256, and an access made with index = 256 refills and reads slot 0.
C4_IndexInBounds ==
  /\ [](index >= 0 /\ index <= 256)
  /\ [](calls >= 1 => (readPos >= 0 /\ readPos < 256))
  /\ [][(calls' = calls + 1 /\ index = 256) =>
          (refills' = refills + 1 /\ readPos' = 0 /\ index' = 1)]_vars

\* C4 witness: the buffer was used up (index = 256) and the next access
\* has refilled and read slot 0.
C4_Witness == calls = 257 /\ readPos = 0 /\ index = 1 /\ refills = 2

\* C5: started without a suite argument, the program prints the usage
\* message, exits with status 1 and runs no battery.
C5_NoArgumentUsageError ==
  argc < 2 =>
    /\ battery = <<>>
    /\ pc \in {"start", "spec", "main", "exited"}
    /\ calls = 0
    /\ pc = "exited" => (out = ExpectedUsage /\ exitStatus = 1)
    /\ pc # "exited" => (out = <<>> /\ exitStatus = -1)

\* C5 witness: a run without argument has ended.
C5_Witness == argc < 2 /\ pc = "exited" /\ out # <<>>

\* C6: when the second argument is one of the three suite names, the
\* battery of that name is invoked exactly once, with the adapter, and no
\* other battery is invoked.
C6_ExactlyTheNamedBattery ==
  KnownSuite =>
    /\ pc \in {"start", "spec", "main"} => battery = <<>>
    /\ pc \notin {"start", "spec", "main"} =>
         battery = << [name |-> argv[2], gen |-> LiveGen] >>

\* C6 witness: the run with argument "Crush" has invoked a battery and ended.
C6_Witness ==
  /\ argc >= 2
  /\ argv[2] = <<67, 114, 117, 115, 104>>
  /\ Len(battery) = 1
  /\ pc = "exited"

\* C7: when the second argument is not exactly one of the three suite
\* names, the program prints the unknown-specification message with the
\* argument verbatim, exits with status 1 and runs no battery.
C7_UnknownSuiteError ==
  (argc >= 2 /\ ~KnownSuite) =>
    /\ battery = <<>>
    /\ pc \in {"start", "spec", "main", "exited"}
    /\ calls = 0
    /\ pc = "exited" =>
         (out = ExpectedUnknownHead \o argv[2] \o <<39, 10>> /\ exitStatus = 1)
    /\ pc # "exited" => (out = <<>> /\ exitStatus = -1)

\* C7 witness: the run with argument "bigcrush" has ended.
C7_Witness ==
  /\ argc >= 2
  /\ argv[2] = <<98, 105, 103, 99, 114, 117, 115, 104>>
  /\ pc = "exited"
  /\ out # <<>>

\* what a refill is about to deliver: whole units, and bytes of a last,
\* incomplete unit
Readable == IF stdinState = "closed" THEN 0 ELSE streamLen - pos

Available == Readable \div SizeofUnsignedLong(abi)

Fragment == Readable % SizeofUnsignedLong(abi)

UnitAt(i) ==
  [j \in 1..SizeofUnsignedLong(abi) |->
     StreamByte(pos + i * SizeofUnsignedLong(abi) + j - 1)]

\* an accessor call that refills and gets fewer than 256 units
ShortRefillStep ==
  /\ pc = "battery"
  /\ calls' = calls + 1
  /\ index >= BUFFER_LENGTH
  /\ Available < BUFFER_LENGTH

\* what a short refill does apart from the slots it leaves alone
ShortRefillEffect ==
  /\ \A i \in Slots : i < Available => buffer'[i] = UnitAt(i)
  /\ index' = 1
  /\ readPos' = 0
  /\ RetWord' = SubSeq(ValueOfBytes(buffer'[0], abi), 1, 4)
  /\ pc' = pc /\ exitStatus' = exitStatus /\ out' = out

\* C8 as stated: a refill that delivers n < 256 units raises no error,
\* puts the units in slots 0..n-1, leaves every slot n..255 as it was,
\* resets index and returns buffer[0].
C8_ShortRefillKeepsAllUnreadSlots ==
  [][ShortRefillStep =>
        /\ ShortRefillEffect
        /\ \A i \in Slots : i >= Available => buffer'[i] = buffer[i]]_vars

\* C8 amended: as above, but slot n is only known to keep its value when
\* the data ended on a unit boundary; when the data ends inside unit n,
\* slots n+1..255 keep their values and slot n keeps its bytes past the
\* fragment.
C8_ShortRefillKeepsSlotsPastFragment ==
  [][ShortRefillStep =>
        /\ ShortRefillEffect
        /\ \A i \in Slots : i > Available => buffer'[i] = buffer[i]
        /\ Fragment = 0 => buffer'[Available] = buffer[Available]
        /\ \A j \in 1..SizeofUnsignedLong(abi) :
             j > Fragment => buffer'[Available][j] = buffer[Available][j]]_vars

\* C8 witness: the second refill was short and ended inside a unit; the
\* slots past it still hold the data of the first refill.
C8_Witness ==
  /\ pc = "battery"
  /\ refills = 2
  /\ calls = BUFFER_LENGTH + 1
  /\ lastRead.n >= 1
  /\ lastRead.n < BUFFER_LENGTH
  /\ lastRead.part > 0
  /\ pos = streamLen

\* C9: createStdinReader runs once, before anything else; deleteStdinReader
\* runs once exactly when a battery has returned, before the exit with
\* status 0 and after the last accessor call; the exits with status 1
\* leave the adapter created and not destroyed.
C9_AdapterLifecycle ==
  /\ [](pc = "start" =>
          (created = 0 /\ out = <<>> /\ battery = <<>> /\ exitStatus = -1))
  /\ [](pc # "start" => created = 1)
  /\ [](deleted = 1 <=> (pc = "return" \/ (pc = "exited" /\ exitStatus = 0)))
  /\ [](deleted = 0 \/ deleted = 1)
  /\ [](deleted = 1 => (Len(battery) = 1 /\ gen.alloc = "freed"))
  /\ [](exitStatus = 1 => (deleted = 0 /\ created = 1 /\ gen.alloc = "live"))
  /\ [](pc = "delete" => (Len(battery) = 1 /\ exitStatus = -1))
  /\ [][pc = "battery" /\ pc' # "battery" => pc' = "delete"]_vars
  /\ [][deleted = 1 => (calls' = calls /\ deleted' = 1 /\ battery' = battery)]_vars

\* C9 witness: a run whose battery made calls has destroyed the adapter
\* and ended with status 0.
C9_Witness ==
  /\ pc = "exited"
  /\ exitStatus = 0
  /\ deleted = 1
  /\ calls > 0

\* C10: once the input is exhausted, a refill reads nothing and returns,
\* every accessor call returns a value and no error state changes; a call
\* made 256 calls or more after the refill that exhausted
\* the input returns what the call 256 earlier returned, and after a whole
\* pass the words returned are the contents of the buffer as that refill
\* left it.
C10_PeriodicAfterExhaustion ==
  /\ eofAt > 0 =>
       /\ (pos = streamLen \/ stdinState = "closed")
       /\ calls >= eofAt
       /\ Len(RetWord) = 4
       /\ exitStatus # 1
       /\ pc \in {"battery", "delete", "return", "exited"}
  /\ (eofAt > 0 /\ calls >= eofAt + BUFFER_LENGTH) => RetWord = prevPass
  /\ (eofAt > 0 /\ calls >= eofAt + BUFFER_LENGTH - 1 /\ pc = "battery") =>
        \A i \in Slots : SubSeq(ValueOfBytes(buffer[i], abi), 1, 4) = prev[i]

\* C10 witness: input that ended in the second refill is replayed by the
\* third pass over the buffer.
C10_Witness ==
  /\ eofAt = BUFFER_LENGTH + 1
  /\ calls > 2 * BUFFER_LENGTH + 1
  /\ refills = 3
  /\ pc = "battery"
  /\ prevPass # <<>>
====
